---- MODULE Spec2Model ----
(***************************************************************************)
(* Style profiler: transcript chunk parser, chunk scorer, the five         *)
(* analysis agents, and the job layer around them (the API server, the     *)
(* style_profiler.py process and the job_metadata.json status file).       *)
(*                                                                         *)
(* Text is modelled as a sequence of tokens.  A token is one of the three  *)
(* marker strings, a whitespace character, a punctuation character or a    *)
(* word; a Python str operation is modelled by what it does to the token   *)
(* sequence (startswith looks at the first token, replace removes every    *)
(* occurrence of the marker, strip removes leading and trailing tokens of  *)
(* the stripped set, split cuts at whitespace tokens).  A word, as split() *)
(* returns it, is a maximal run of non-whitespace tokens.                  *)
(***************************************************************************)
EXTENDS Integers, Sequences, FiniteSets, TLC

VARIABLES transcript, vader, op, result, parser, noted, last_seen, profile,
          world, proc, metadata, webhook, monitor, notified, answer

vars == <<transcript, vader, op, result, parser, noted, last_seen, profile,
          world, proc, metadata, webhook, monitor, notified, answer>>

\* What calls leave behind, followed by the specifications that repeat calls
\* (SpecCalls, SpecFanOut); the single-call specifications leave it alone.
\* parser: the values the accumulators of extract_chunks held when the latest
\*         call returned (what a later call would find if they outlived it)
\* noted:  an earlier extract_chunks call kept for comparison, <<>> if none
\* last_seen: the set of findings the latest deduplicating analyze call had
\*         seen when it returned
\* profile: per section key, <<>> or the one list stored under it
history == <<parser, noted, last_seen, profile>>

\* The job layer, followed by SpecJobs; the other specifications leave it
\* alone.
\* world:    what the run finds outside the program: whether the transcript
\*           source can be read, whether the output directory can be written,
\*           whether the storage service takes the profile, and USE_MONGODB
\*           as the environment had it when style_profiler.py was imported
\* proc:     the two style_profiler.py processes, the one the API server
\*           launches ("subprocess") and one started from a command line
\*           ("manual"): where main stands, the argument vector, the exit
\*           code, the status update in progress, the steps done so far
\* metadata: output/<job_id>/job_metadata.json: "missing", "empty" (opened
\*           for writing, nothing flushed yet) or the status it holds
\* webhook:  the latest answer of POST /webhook/process-transcript
\* monitor:  the monitor thread of the job and the status it read
\* notified: how many times notify_app3.py was run
\* answer:   the latest answer of GET /jobs/<job_id>
jobs == <<world, proc, metadata, webhook, monitor, notified, answer>>

\* ------------------------------------------------------------------ tokens

HeaderMark == "## [Chunk"
TimestampMark == "**Timestamp**:"
SpeakerMark == "> Speaker 2:"
NL == "\n"
SP == " "

\* str.strip() / str.split() with no argument: whitespace
Whitespace == {SP, NL, "\t"}

\* line.strip("[] \n")
IdStripChars == {"[", "]", SP, NL}

\* ------------------------------------------------------------------ str helpers

RECURSIVE LStrip(_, _)
LStrip(s, chars) ==
    IF s # <<>> /\ Head(s) \in chars THEN LStrip(Tail(s), chars) ELSE s

RECURSIVE RStrip(_, _)
RStrip(s, chars) ==
    IF s # <<>> /\ s[Len(s)] \in chars
    THEN RStrip(SubSeq(s, 1, Len(s) - 1), chars)
    ELSE s

StripChars(s, chars) == RStrip(LStrip(s, chars), chars)

Strip(s) == StripChars(s, Whitespace)

StartsWith(line, mark) == line # <<>> /\ Head(line) = mark

Replace(line, mark) == SelectSeq(line, LAMBDA t : t # mark)

\* transcript.split("\n"): always at least one (possibly empty) line
RECURSIVE SplitOn(_, _, _)
SplitOn(s, sep, cur) ==
    IF s = <<>> THEN <<cur>>
    ELSE IF Head(s) = sep THEN <<cur>> \o SplitOn(Tail(s), sep, <<>>)
    ELSE SplitOn(Tail(s), sep, Append(cur, Head(s)))

SplitLines(s) == SplitOn(s, NL, <<>>)

\* sep.join(parts)
RECURSIVE Join(_, _)
Join(parts, sep) ==
    IF parts = <<>> THEN <<>>
    ELSE IF Len(parts) = 1 THEN parts[1]
    ELSE parts[1] \o <<sep>> \o Join(Tail(parts), sep)

\* ------------------------------------------------------------------ parser

Chunk(id, ts, text) == [id |-> id, timestamp |-> ts, text |-> text]

\* a bug that flushes without looking at chunk_id
NoIdCheckFlush(chunks, current_chunk, chunk_id, timestamp) ==
    IF current_chunk # <<>>
    THEN Append(chunks, Chunk(chunk_id, timestamp, Join(current_chunk, NL)))
    ELSE chunks

\* "if current_chunk and chunk_id": a non-empty list and a non-empty string
FlushChunk(chunks, current_chunk, chunk_id, timestamp) ==
    IF current_chunk # <<>> /\ chunk_id # <<>>
    THEN Append(chunks, Chunk(chunk_id, timestamp, Join(current_chunk, NL)))
    ELSE chunks

\* a bug that takes every line without a marker as more of the speaker's text
RECURSIVE KeepOtherLinesScan(_, _, _, _, _)
KeepOtherLinesScan(lines, chunks, current_chunk, chunk_id, timestamp) ==
    IF lines = <<>>
    THEN FlushChunk(chunks, current_chunk, chunk_id, timestamp)
    ELSE LET line == Head(lines) IN
         IF StartsWith(line, HeaderMark)
         THEN KeepOtherLinesScan(Tail(lines),
                        FlushChunk(chunks, current_chunk, chunk_id, timestamp),
                        <<>>, StripChars(line, IdStripChars), timestamp)
         ELSE IF StartsWith(line, TimestampMark)
         THEN KeepOtherLinesScan(Tail(lines), chunks, current_chunk, chunk_id,
                        Strip(Replace(line, TimestampMark)))
         ELSE KeepOtherLinesScan(Tail(lines), chunks,
                        Append(current_chunk, Strip(Replace(line, SpeakerMark))),
                        chunk_id, timestamp)

RECURSIVE ScanLines(_, _, _, _, _)
ScanLines(lines, chunks, current_chunk, chunk_id, timestamp) ==
    IF lines = <<>>
    THEN FlushChunk(chunks, current_chunk, chunk_id, timestamp)
    ELSE LET line == Head(lines) IN
         IF StartsWith(line, HeaderMark)
         THEN ScanLines(Tail(lines),
                        FlushChunk(chunks, current_chunk, chunk_id, timestamp),
                        <<>>, StripChars(line, IdStripChars), timestamp)
         ELSE IF StartsWith(line, TimestampMark)
         THEN ScanLines(Tail(lines), chunks, current_chunk, chunk_id,
                        Strip(Replace(line, TimestampMark)))
         ELSE IF StartsWith(line, SpeakerMark)
         THEN ScanLines(Tail(lines), chunks,
                        Append(current_chunk, Strip(Replace(line, SpeakerMark))),
                        chunk_id, timestamp)
         ELSE ScanLines(Tail(lines), chunks, current_chunk, chunk_id, timestamp)

extract_chunks(t) == ScanLines(SplitLines(t), <<>>, <<>>, <<>>, <<>>)

\* the four accumulators of extract_chunks as one value
Accumulators(chunks, current_chunk, chunk_id, timestamp) ==
    [chunks |-> chunks, current_chunk |-> current_chunk,
     chunk_id |-> chunk_id, timestamp |-> timestamp]

\* a bug that keeps the accumulators on the instance and goes on from what
\* the previous call left in them
KeptAccumulators(left) == left

\* every call binds its accumulators anew, whatever an earlier call left
NewAccumulators(left) == Accumulators(<<>>, <<>>, <<>>, <<>>)

\* the accumulators when the loop over the lines ends
RECURSIVE LoopEnd(_, _)
LoopEnd(lines, acc) ==
    IF lines = <<>> THEN acc
    ELSE LET line == Head(lines) IN
         IF StartsWith(line, HeaderMark)
         THEN LoopEnd(Tail(lines),
                      Accumulators(FlushChunk(acc.chunks, acc.current_chunk,
                                              acc.chunk_id, acc.timestamp),
                                   <<>>, StripChars(line, IdStripChars),
                                   acc.timestamp))
         ELSE IF StartsWith(line, TimestampMark)
         THEN LoopEnd(Tail(lines),
                      [acc EXCEPT !.timestamp = Strip(Replace(line, TimestampMark))])
         ELSE IF StartsWith(line, SpeakerMark)
         THEN LoopEnd(Tail(lines),
                      [acc EXCEPT !.current_chunk =
                          Append(@, Strip(Replace(line, SpeakerMark)))])
         ELSE LoopEnd(Tail(lines), acc)

\* the accumulators at the return of a call that found left
CallEnd(t, left) ==
    LET acc == LoopEnd(SplitLines(t), NewAccumulators(left))
    IN [acc EXCEPT !.chunks = FlushChunk(acc.chunks, acc.current_chunk,
                                         acc.chunk_id, acc.timestamp)]

\* ------------------------------------------------------------------ words

\* str.lower(), on the tokens that carry upper-case letters
LowerOf == [t \in {"I", "Grow", "We"} |->
              CASE t = "I" -> "i" [] t = "Grow" -> "grow" [] t = "We" -> "we"]

Lower(t) == IF t \in DOMAIN LowerOf THEN LowerOf[t] ELSE t

LowerText(text) == [i \in DOMAIN text |-> Lower(text[i])]

\* text.split(): the maximal runs of non-whitespace tokens, in order
RECURSIVE SplitWs(_, _)
SplitWs(s, cur) ==
    IF s = <<>> THEN (IF cur = <<>> THEN <<>> ELSE <<cur>>)
    ELSE IF Head(s) \in Whitespace
    THEN (IF cur = <<>> THEN <<>> ELSE <<cur>>) \o SplitWs(Tail(s), <<>>)
    ELSE SplitWs(Tail(s), Append(cur, Head(s)))

Split(text) == SplitWs(text, <<>>)

Range(f) == { f[i] : i \in DOMAIN f }

\* set(text.lower().split())
CaseSensitiveWordSet(text) == Range(Split(text))

WordSet(text) == Range(Split(LowerText(text)))

\* "indicator in words" for a one-word indicator
AnyIn(indicators, words) == \E k \in indicators : <<k>> \in words

\* ------------------------------------------------------------------ sentiment

\* polarity_scores: compound in 1/10000, neg / neu / pos in 1/1000.  The
\* analyzer is a lexicon-and-rule library outside the repository; its value
\* for a text with words is drawn from Sentiments, and it depends on the
\* text only through text.split().  A text without words has no valence
\* and gets all zeros.
Sentiment(neg, neu, pos, compound) ==
    [neg |-> neg, neu |-> neu, pos |-> pos, compound |-> compound]

ZeroSentiment == Sentiment(0, 0, 0, 0)

Sentiments ==
    { Sentiment(0, 1000, 0, 0),
      Sentiment(0, 400, 600, 7000),
      Sentiment(500, 500, 0, -6000),
      Sentiment(150, 500, 350, 1000),
      \* outside the documented ranges
      Sentiment(1000, 0, 1000, 10000),
      Sentiment(0, 0, 0, -30000) }

\* the two ends of the documented ranges
ExtremeSentiments ==
    { Sentiment(0, 0, 1000, 10000),
      Sentiment(0, 1000, 0, -10000) }

\* compound on a threshold of the overall tone
ToneCutSentiments ==
    { Sentiment(0, 600, 400, 5000),
      Sentiment(100, 600, 300, 2000),
      Sentiment(300, 600, 100, -2000) }

polarity_scores(v, text) ==
    IF Split(text) = <<>> THEN ZeroSentiment ELSE v[Split(text)]

\* ------------------------------------------------------------------ scorer

\* scores are kept in units of 1/200000 until they are rounded
One == 200000

Max(a, b) == IF a >= b THEN a ELSE b
Min(a, b) == IF a <= b THEN a ELSE b

\* round(x, 2): to hundredths, an exact tie going to the even neighbour
Round2(x) ==
    LET q == x \div 2000
        r == x % 2000
    IN IF r < 1000 THEN q
       ELSE IF r > 1000 THEN q + 1
       ELSE IF q % 2 = 0 THEN q ELSE q + 1

\* a bug that leaves out the clamp
UnclampedEmotionalScore(sentiment) ==
    LET base_score == sentiment.compound + 10000
        intensity == sentiment.pos + sentiment.neg
    IN (base_score * 7) + (intensity * 60)

\* a bug that does not halve compound + 1
UnhalvedEmotionalScore(sentiment) ==
    LET base_score == 2 * (sentiment.compound + 10000)
        intensity == sentiment.pos + sentiment.neg
        score == (base_score * 7) + (intensity * 60)
    IN Max(0, Min(One, score))

calculate_emotional_score(sentiment) ==
    LET base_score == sentiment.compound + 10000      \* (compound + 1) / 2, in 1/20000
        intensity == sentiment.pos + sentiment.neg    \* in 1/1000
        score == (base_score * 7) + (intensity * 60)
    IN Max(0, Min(One, score))

personal_pronouns == {"i", "me", "my", "mine", "myself"}
universal_indicators == {"everyone", "all", "we", "you"}
emotional_words == {"feel", "felt", "emotion", "experience"}
story_indicators == {"when", "happened", "time", "example"}
resolution_indicators == {"learned", "realized", "understood", "discovered"}

RelatabilityGroups ==
    << personal_pronouns, universal_indicators, emotional_words,
       story_indicators, resolution_indicators >>

RECURSIVE SumSeq(_)
SumSeq(s) == IF s = <<>> THEN 0 ELSE Head(s) + SumSeq(Tail(s))

\* a bug that counts every matching word instead of every matching group
PerWordRelatabilityScore(text) ==
    LET words == WordSet(text)
        hits(g) == Cardinality({k \in g : <<k>> \in words})
    IN Max(0, Min(One, SumSeq([i \in DOMAIN RelatabilityGroups |->
                                   40000 * hits(RelatabilityGroups[i])])))

calculate_relatability_score(text) ==
    LET words == WordSet(text)
        s1 == IF AnyIn(personal_pronouns, words) THEN 40000 ELSE 0
        s2 == s1 + (IF AnyIn(universal_indicators, words) THEN 40000 ELSE 0)
        s3 == s2 + (IF AnyIn(emotional_words, words) THEN 40000 ELSE 0)
        s4 == s3 + (IF AnyIn(story_indicators, words) THEN 40000 ELSE 0)
        s5 == s4 + (IF AnyIn(resolution_indicators, words) THEN 40000 ELSE 0)
    IN Max(0, Min(One, s5))

Theme(name, indicators) == [name |-> name, indicators |-> indicators]

theme_categories ==
    << Theme("inspiration", {"inspire", "motivate", "encourage", "possible", "dream"}),
       Theme("insight", {"realize", "understand", "learn", "discover", "clarity"}),
       Theme("expertise", {"know", "expert", "experience", "professional", "skill"}),
       Theme("story", {"happened", "time", "when", "story", "example"}),
       Theme("advice", {"should", "recommend", "suggest", "advice", "tip"}),
       Theme("reflection", {"think", "feel", "believe", "sense", "perspective"}),
       Theme("action", {"do", "take", "start", "begin", "act"}),
       Theme("challenge", {"difficult", "challenge", "hard", "obstacle", "tough"}),
       Theme("success", {"achieve", "accomplish", "succeed", "win", "goal"}),
       Theme("growth", {"grow", "develop", "improve", "progress", "better"}) >>

RECURSIVE TagsFrom(_, _)
TagsFrom(categories, words) ==
    IF categories = <<>> THEN <<>>
    ELSE (IF AnyIn(Head(categories).indicators, words)
          THEN <<Head(categories).name>> ELSE <<>>)
         \o TagsFrom(Tail(categories), words)

\* a bug that forgets text.lower()
CaseSensitiveThemeTags(text) ==
    TagsFrom(theme_categories, CaseSensitiveWordSet(text))

generate_theme_tags(text) == TagsFrom(theme_categories, WordSet(text))

score_chunk(v, text) ==
    LET sentiment == polarity_scores(v, text)
        emotional_score == calculate_emotional_score(sentiment)
        relatability_score == calculate_relatability_score(text)
        theme_tags == generate_theme_tags(text)
    IN [emotional_tone_score |-> Round2(emotional_score),
        relatability_score |-> Round2(relatability_score),
        theme_tags |-> theme_tags]

\* scores[chunk_id] = ...: a later chunk with the same id overwrites
\* a bug that keeps the record of the first chunk of an id
RECURSIVE FirstWriteScoreLoop(_, _, _)
FirstWriteScoreLoop(v, chunks, scores) ==
    IF chunks = <<>> THEN scores
    ELSE LET c == Head(chunks)
             rec == score_chunk(v, c.text)
         IN FirstWriteScoreLoop(v, Tail(chunks),
                      [id \in (DOMAIN scores) \cup {c.id} |->
                          IF id \in DOMAIN scores THEN scores[id] ELSE rec])

RECURSIVE ScoreLoop(_, _, _)
ScoreLoop(v, chunks, scores) ==
    IF chunks = <<>> THEN scores
    ELSE LET c == Head(chunks)
             rec == score_chunk(v, c.text)
         IN ScoreLoop(v, Tail(chunks),
                      [id \in (DOMAIN scores) \cup {c.id} |->
                          IF id = c.id THEN rec ELSE scores[id]])

\* a bug that scores every chunk with the text of the first one
FirstTextScoreChunks(v, t) ==
    LET chunks == extract_chunks(t) IN
    ScoreLoop(v, [i \in DOMAIN chunks |->
                     Chunk(chunks[i].id, chunks[i].timestamp, chunks[1].text)], <<>>)

score_chunks(v, t) == ScoreLoop(v, extract_chunks(t), <<>>)

\* ------------------------------------------------------------------ nltk

\* The tokenizers and the tagger are library code outside the repository.
\* word_tokenize yields every non-whitespace token on its own (punctuation
\* is split off the word it is attached to); sent_tokenize ends a sentence
\* after ".", "?" or "!" and yields no sentence for a text without words;
\* pos_tag is a fixed tag per token.
word_tokenize(text) == SelectSeq(text, LAMBDA t : t \notin Whitespace)

SentenceEnd == {".", "?", "!"}

RECURSIVE SentSplit(_, _)
SentSplit(s, cur) ==
    LET emit == IF Strip(cur) = <<>> THEN <<>> ELSE <<Strip(cur)>> IN
    IF s = <<>> THEN emit
    ELSE IF Head(s) \in SentenceEnd
    THEN (IF Strip(Append(cur, Head(s))) = <<>> THEN <<>>
          ELSE <<Strip(Append(cur, Head(s)))>>) \o SentSplit(Tail(s), <<>>)
    ELSE SentSplit(Tail(s), Append(cur, Head(s)))

sent_tokenize(text) == SentSplit(text, <<>>)

Adjectives == {"hard", "difficult", "honest"}
Nouns == {"truth", "comfort", "people", "quality", "i", "excellence"}
Adverbs == {"today"}

pos_tag(w) ==
    IF w \in Adjectives THEN "JJ"
    ELSE IF w \in Nouns THEN "NN"
    ELSE IF w \in Adverbs THEN "RB"
    ELSE "X"

\* len(w) > 8
LongTokens == {"excellence"}

\* stopwords.words('english'), the members that occur in the inputs
stop_words == {"i", "me", "my", "we", "all", "over", "when", "the"}

\* sum(1 for x in s if test(x)), over the outcomes of the test
CountTrue(flags) == Cardinality({i \in DOMAIN flags : flags[i]})

\* ------------------------------------------------------------------ base agent

\* BaseAgent._clean_transcript
RECURSIVE SpeakerTexts(_)
SpeakerTexts(lines) ==
    IF lines = <<>> THEN <<>>
    ELSE (IF StartsWith(Head(lines), SpeakerMark)
          THEN <<Strip(Replace(Head(lines), SpeakerMark))>> ELSE <<>>)
         \o SpeakerTexts(Tail(lines))

\* a bug that leaves out the speaker lines without text
CleanNonBlank(t) ==
    Join(SelectSeq(SpeakerTexts(SplitLines(t)), LAMBDA x : x # <<>>), SP)

clean_transcript(t) == Join(SpeakerTexts(SplitLines(t)), SP)

\* finding.lstrip("*- " and the bullet glyph).strip()
BulletChars == {"*", "-", "(bullet)", SP}

\* finding[0].upper() on the tokens that start with a lower-case letter
UpperFirstOf == [t \in {"hard", "truth"} |->
                    CASE t = "hard" -> "Hard" [] t = "truth" -> "Truth"]

format_finding(finding) ==
    LET f == Strip(LStrip(finding, BulletChars)) IN
    IF f # <<>> /\ Head(f) \in DOMAIN UpperFirstOf
    THEN <<UpperFirstOf[Head(f)]>> \o Tail(f)
    ELSE f

FormatAll(findings) == [i \in DOMAIN findings |-> format_finding(findings[i])]

\* "Remove duplicates while preserving order"
RECURSIVE DedupLoop(_, _, _)
DedupLoop(items, unique, seen) ==
    IF items = <<>> THEN unique
    ELSE LET formatted == format_finding(Head(items)) IN
         IF formatted \notin seen
         THEN DedupLoop(Tail(items), Append(unique, formatted), seen \cup {formatted})
         ELSE DedupLoop(Tail(items), unique, seen)

\* a bug that formats without removing duplicates
KeepDuplicates(items) == [i \in DOMAIN items |-> format_finding(items[i])]

UniqueFormatted(items) == DedupLoop(items, <<>>, {})

\* a bug that keeps one seen set for all analyze calls
SharedSeen(left) == left

\* "seen = set()": every analyze call starts from an empty set, whatever an
\* earlier call had seen
NewSeen(left) == {}

Raised(exc) == [raised |-> TRUE, value |-> exc]

Returned(v) == [raised |-> FALSE, value |-> v]

RECURSIVE Flatten(_)
Flatten(ss) == IF ss = <<>> THEN <<>> ELSE Head(ss) \o Flatten(Tail(ss))

When(cond, finding) == IF cond THEN << <<finding>> >> ELSE <<>>

\* ------------------------------------------------------------------ voice

\* TextProcessor.get_speaking_style: avg_sentence_length and question_ratio
\* divide by len(sentences)
get_speaking_style(text) ==
    LET sentences == sent_tokenize(text)
        words == word_tokenize(LowerText(text))
    IN IF Len(sentences) = 0 THEN Raised("ZeroDivisionError")
       ELSE Returned(
              [words |-> Len(words),
               sentences |-> Len(sentences),
               questions |-> CountTrue([n \in DOMAIN sentences |-> sentences[n][Len(sentences[n])] = "?"]),
               adjectives |-> CountTrue([n \in DOMAIN words |-> pos_tag(words[n]) = "JJ"]),
               adverbs |-> CountTrue([n \in DOMAIN words |-> pos_tag(words[n]) = "RB"]),
               first_person |-> CountTrue([n \in DOMAIN words |-> words[n] \in personal_pronouns])])

analyze_pacing(chunks) ==
    LET counts == [i \in DOMAIN chunks |-> Len(sent_tokenize(chunks[i].text))]
        lengths == SelectSeq(counts, LAMBDA n : n > 0)
    IN IF lengths = <<>> THEN <<>>
       ELSE IF SumSeq(lengths) > 3 * Len(lengths)
       THEN << <<"Tends to elaborate with multiple connected thoughts">> >>
       ELSE << <<"Delivers ideas in focused, discrete segments">> >>

analyze_word_choices(text) ==
    LET words == word_tokenize(LowerText(text))
        technical == CountTrue([n \in DOMAIN words |-> pos_tag(words[n]) = "NN" /\ words[n] \in LongTokens])
    IN When(\E i \in DOMAIN words : words[i] \in {"like", "as", "imagine", "picture"},
            "Uses metaphors and imagery to illustrate points")
       \o When(technical > 5, "Comfortable with technical/specialized vocabulary")

analyze_delivery(chunks) ==
    LET questions == CountTrue([n \in DOMAIN chunks |-> "?" \in Range(chunks[n].text)])
        emphasis == CountTrue([n \in DOMAIN chunks |-> "!" \in Range(chunks[n].text)])
    IN When(10 * questions > 2 * Len(chunks), "Engages through rhetorical questions")
       \o (IF 10 * emphasis > Len(chunks)
           THEN << <<"Uses dynamic emphasis for key points">> >>
           ELSE << <<"Maintains measured, even-keeled delivery">> >>)

VoiceAnalyzer_analyze(t) ==
    LET clean_text == clean_transcript(t)
        chunks == extract_chunks(t)
        style == get_speaking_style(clean_text)
        m == style.value
    IN IF style.raised THEN style
       ELSE Returned(FormatAll(
              (IF m.words > 20 * m.sentences
               THEN << <<"Uses detailed, expansive sentences">> >>
               ELSE << <<"Favors concise, direct communication">> >>)
              \o When(m.first_person > 10, "Speaks from personal experience")
              \o When(m.adjectives > 30, "Highly descriptive speaking style")
              \o analyze_pacing(chunks)
              \o analyze_word_choices(clean_text)
              \o analyze_delivery(chunks)))

\* ------------------------------------------------------------------ containment

\* "needle in text" on strings: a one-word needle is found in every token
\* that contains it
SubstringPairs ==
    { <<"learn", "learned">>, <<"grow", "growth">>, <<"truth", "truthful">> }

Contains(text, needle) ==
    \E i \in DOMAIN text : text[i] = needle \/ <<needle, text[i]>> \in SubstringPairs

\* a needle of words separated by single spaces
ContainsPhrase(text, phrase) ==
    \E i \in DOMAIN text :
        /\ i + Len(phrase) - 1 <= Len(text)
        /\ SubSeq(text, i, i + Len(phrase) - 1) = phrase

\* ------------------------------------------------------------------ ranking

RECURSIVE DistinctInOrder(_, _)
DistinctInOrder(s, seen) ==
    IF s = <<>> THEN <<>>
    ELSE IF Head(s) \in seen THEN DistinctInOrder(Tail(s), seen)
    ELSE <<Head(s)>> \o DistinctInOrder(Tail(s), seen \cup {Head(s)})

CountOf(all, x) == Cardinality({i \in DOMAIN all : all[i] = x})

\* sorted(keys, key=count, reverse=True) / Counter.most_common: by count,
\* equal counts in first-seen order
RECURSIVE ByCountDesc(_, _)
ByCountDesc(keys, all) ==
    IF keys = <<>> THEN <<>>
    ELSE LET best == CHOOSE i \in DOMAIN keys :
                        /\ \A j \in DOMAIN keys : CountOf(all, keys[j]) <= CountOf(all, keys[i])
                        /\ \A j \in 1..(i - 1) : CountOf(all, keys[j]) < CountOf(all, keys[i])
         IN <<keys[best]>>
            \o ByCountDesc(SubSeq(keys, 1, best - 1) \o SubSeq(keys, best + 1, Len(keys)), all)

FirstN(s, n) == SubSeq(s, 1, Min(n, Len(s)))

most_common(all, n) == FirstN(ByCountDesc(DistinctInOrder(all, {}), all), n)

\* ------------------------------------------------------------------ themes

\* TextProcessor.get_key_phrases: runs of adjectives and nouns, stop words
\* left out, phrases of two words or more, the top_n most frequent
RECURSIVE PhraseScan(_, _)
PhraseScan(words, current_phrase) ==
    IF words = <<>>
    THEN (IF current_phrase # <<>> THEN <<current_phrase>> ELSE <<>>)
    ELSE IF pos_tag(Head(words)) \in {"JJ", "NN"}
    THEN PhraseScan(Tail(words),
                    IF Head(words) \notin stop_words
                    THEN Append(current_phrase, Head(words)) ELSE current_phrase)
    ELSE (IF current_phrase # <<>> THEN <<current_phrase>> ELSE <<>>)
         \o PhraseScan(Tail(words), <<>>)

get_key_phrases(text) ==
    LET phrases == PhraseScan(word_tokenize(LowerText(text)), <<>>)
        multi == SelectSeq(phrases, LAMBDA ph : Len(ph) > 1)
    IN most_common(multi, 5)

KeyTheme(indicators, finding) == [indicators |-> indicators, finding |-> finding]

theme_indicators ==
    << KeyTheme({"learn", "grow", "develop", "improve", "progress", "journey"},
                "Personal growth and continuous learning"),
       KeyTheme({"difficult", "challenge", "obstacle", "struggle", "overcome"},
                "Navigating challenges and obstacles"),
       KeyTheme({"change", "transition", "shift", "transform", "adapt"},
                "Embracing change and transformation"),
       KeyTheme({"purpose", "meaning", "mission", "calling", "passion"},
                "Finding purpose and meaning"),
       KeyTheme({"team", "people", "connection", "community", "support"},
                "Building meaningful connections"),
       KeyTheme({"accomplish", "achieve", "success", "goal", "milestone"},
                "Setting and achieving goals"),
       KeyTheme({"persist", "endure", "resilient", "bounce", "recover"},
                "Demonstrating resilience and persistence"),
       KeyTheme({"authentic", "genuine", "true", "real", "honest"},
                "Maintaining authenticity and genuineness") >>

identify_key_themes(text) ==
    LET words == word_tokenize(LowerText(text)) IN
    Flatten([i \in DOMAIN theme_indicators |->
               When(CountTrue([n \in DOMAIN words |-> words[n] \in theme_indicators[i].indicators]) >= 2,
                    theme_indicators[i].finding)])

MaxOf(s) == CHOOSE x \in Range(s) : \A y \in Range(s) : y <= x
MinOf(s) == CHOOSE x \in Range(s) : \A y \in Range(s) : x <= y

\* a bug that looks for the arc from two chunks on
TwoChunkArcs(v, chunks) ==
    LET sentiments == [i \in DOMAIN chunks |-> polarity_scores(v, chunks[i].text).compound]
    IN IF Len(sentiments) >= 2
       THEN When(sentiments[1] < 0 /\ sentiments[Len(sentiments)] > 0,
                 "Journey from challenge to triumph")
            \o When(MaxOf(sentiments) - MinOf(sentiments) > 10000,
                    "Reflective exploration of highs and lows")
       ELSE <<>>

identify_narrative_arcs(v, chunks) ==
    LET sentiments == [i \in DOMAIN chunks |-> polarity_scores(v, chunks[i].text).compound]
    IN IF Len(sentiments) >= 3
       THEN When(sentiments[1] < 0 /\ sentiments[Len(sentiments)] > 0,
                 "Journey from challenge to triumph")
            \o When(MaxOf(sentiments) - MinOf(sentiments) > 10000,
                    "Reflective exploration of highs and lows")
       ELSE <<>>

identify_recurring_concepts(chunks) ==
    LET all_phrases == Flatten([i \in DOMAIN chunks |-> get_key_phrases(chunks[i].text)])
        top == most_common(all_phrases, 3)
        often == SelectSeq(top, LAMBDA ph : CountOf(all_phrases, ph) >= 2)
    IN [i \in DOMAIN often |-> <<"Recurring focus on ">> \o Join([k \in DOMAIN often[i] |-> <<often[i][k]>>], SP)]

\* the findings of the three theme analyses, before formatting
theme_findings(v, t) ==
    LET clean_text == clean_transcript(t)
        chunks == extract_chunks(t)
    IN identify_key_themes(clean_text)
       \o identify_narrative_arcs(v, chunks)
       \o identify_recurring_concepts(chunks)

ThemeExtractor_analyze(v, t) == Returned(UniqueFormatted(theme_findings(v, t)))

\* ------------------------------------------------------------------ values

Value(words, phrase) == [words |-> words, phrase |-> phrase]

value_indicators ==
    << Value({"honest", "truth", "integrity", "authentic", "genuine"},
             "Values authenticity and truth"),
       Value({"learn", "grow", "improve", "develop", "progress"},
             "Commitment to continuous growth"),
       Value({"brave", "courage", "bold", "risk", "fear"},
             "Embraces courage over comfort"),
       Value({"create", "innovate", "imagine", "original", "unique"},
             "Prioritizes creative expression"),
       Value({"connect", "relationship", "community", "together", "share"},
             "Values meaningful connections"),
       Value({"freedom", "independent", "choice", "decide", "control"},
             "Prizes personal autonomy"),
       Value({"impact", "difference", "change", "help", "serve"},
             "Driven by meaningful impact"),
       Value({"quality", "excellence", "best", "standard", "perfect"},
             "Strives for excellence") >>

HasAny(words, indicators) == \E i \in DOMAIN words : words[i] \in indicators

identify_explicit_values(text) ==
    LET words == word_tokenize(LowerText(text)) IN
    Flatten([i \in DOMAIN value_indicators |->
               When(HasAny(words, value_indicators[i].words), value_indicators[i].phrase)])

ImplicitOfChunk(text) ==
    LET words == word_tokenize(LowerText(text))
        decided == HasAny(words, {"chose", "decided", "picked", "selected", "opted"})
        prioritised == HasAny(words, {"important", "matters", "priority", "believe", "must"})
    IN When(decided /\ HasAny(words, {"right", "truth"}), "Chooses integrity over convenience")
       \o When(decided /\ HasAny(words, {"hard", "difficult"}), "Values growth over comfort")
       \o When(prioritised /\ HasAny(words, {"people", "others"}), "Prioritizes human connection")
       \o When(prioritised /\ HasAny(words, {"quality", "excellence"}), "Values excellence in craft")

identify_implicit_values(chunks) ==
    Flatten([i \in DOMAIN chunks |-> ImplicitOfChunk(chunks[i].text)])

PriorityOfSentence(sentence) ==
    IF ContainsPhrase(sentence, <<SP, "over", SP>>)
    THEN When(Contains(sentence, "truth") \/ Contains(sentence, "honest"), "Truth over comfort")
         \o When(Contains(sentence, "quality") \/ Contains(sentence, "excellence"), "Quality over quantity")
         \o When(Contains(sentence, "purpose") \/ Contains(sentence, "meaning"), "Purpose over profit")
         \o When(Contains(sentence, "learn") \/ Contains(sentence, "grow"), "Growth over stability")
    ELSE <<>>

PriorityOfChunk(text) ==
    LET sentences == sent_tokenize(LowerText(text)) IN
    Flatten([k \in DOMAIN sentences |-> PriorityOfSentence(sentences[k])])

identify_priority_values(chunks) ==
    Flatten([i \in DOMAIN chunks |-> PriorityOfChunk(chunks[i].text)])

\* the findings of the three value analyses, before formatting
values_findings(t) ==
    LET clean_text == clean_transcript(t)
        chunks == extract_chunks(t)
    IN identify_explicit_values(clean_text)
       \o identify_implicit_values(chunks)
       \o identify_priority_values(chunks)

ValuesIdentifier_analyze(t) == Returned(UniqueFormatted(values_findings(t)))

\* ------------------------------------------------------------------ emotional tone

\* a bug that counts a compound on a threshold to the band above it
NonStrictToneBands(v, text) ==
    LET sentiment == polarity_scores(v, text) IN
    (IF sentiment.compound >= 5000
     THEN << <<"Predominantly optimistic and positive outlook">> >>
     ELSE IF sentiment.compound >= 2000
     THEN << <<"Generally hopeful with balanced perspective">> >>
     ELSE IF sentiment.compound >= -2000
     THEN << <<"Measured and pragmatic emotional tone">> >>
     ELSE << <<"Reflective and growth-focused perspective">> >>)
    \o When(sentiment.neu > 700, "Maintains composed, even-keeled emotional state")
    \o When(sentiment.pos > 300 /\ sentiment.neg > 100,
            "Comfortable expressing full range of emotions")

analyze_overall_tone(v, text) ==
    LET sentiment == polarity_scores(v, text) IN
    (IF sentiment.compound > 5000
     THEN << <<"Predominantly optimistic and positive outlook">> >>
     ELSE IF sentiment.compound > 2000
     THEN << <<"Generally hopeful with balanced perspective">> >>
     ELSE IF sentiment.compound > -2000
     THEN << <<"Measured and pragmatic emotional tone">> >>
     ELSE << <<"Reflective and growth-focused perspective">> >>)
    \o When(sentiment.neu > 700, "Maintains composed, even-keeled emotional state")
    \o When(sentiment.pos > 300 /\ sentiment.neg > 100,
            "Comfortable expressing full range of emotions")

optimism_words == {"hope", "believe", "positive", "better", "future"}
determination_words == {"will", "must", "determined", "committed", "decided"}
reflection_words == {"think", "realize", "understand", "learned", "know"}
gratitude_words == {"thankful", "grateful", "appreciate", "blessed", "luck"}

\* emotion_counts[e]: the number of chunks whose word set meets e's indicators
EmotionCount(chunks, indicators) ==
    CountTrue([n \in DOMAIN chunks |-> AnyIn(indicators, WordSet(chunks[n].text))])

analyze_emotional_patterns(chunks) ==
    When(10 * EmotionCount(chunks, optimism_words) > 3 * Len(chunks),
         "Consistently optimistic undertone")
    \o When(10 * EmotionCount(chunks, reflection_words) > 3 * Len(chunks),
            "Deeply reflective and self-aware")
    \o When(10 * EmotionCount(chunks, determination_words) > 2 * Len(chunks),
            "Strong sense of determination")
    \o When(10 * EmotionCount(chunks, gratitude_words) > Len(chunks),
            "Expresses genuine gratitude")

Abs(x) == IF x < 0 THEN -x ELSE x

\* a bug that tests the two thresholds with independent ifs
IndependentTransitionTests(v, chunks) ==
    LET sentiments == [i \in DOMAIN chunks |-> polarity_scores(v, chunks[i].text).compound]
        changes == [i \in 1..(Len(sentiments) - 1) |-> Abs(sentiments[i + 1] - sentiments[i])]
    IN IF Len(sentiments) >= 3
       THEN When(SumSeq(changes) > 5000 * Len(changes),
                 "Dynamic emotional range with clear transitions")
            \o (IF SumSeq(changes) > 3000 * Len(changes)
                THEN << <<"Natural emotional flow with gentle transitions">> >>
                ELSE << <<"Consistent emotional stability throughout">> >>)
            \o When(sentiments[Len(sentiments)] > 0 /\ MinOf(sentiments) < 0,
                    "Demonstrates emotional resilience and growth")
       ELSE <<>>

analyze_emotional_transitions(v, chunks) ==
    LET sentiments == [i \in DOMAIN chunks |-> polarity_scores(v, chunks[i].text).compound]
        changes == [i \in 1..(Len(sentiments) - 1) |-> Abs(sentiments[i + 1] - sentiments[i])]
    IN IF Len(sentiments) >= 3
       THEN (IF SumSeq(changes) > 5000 * Len(changes)
             THEN << <<"Dynamic emotional range with clear transitions">> >>
             ELSE IF SumSeq(changes) > 3000 * Len(changes)
             THEN << <<"Natural emotional flow with gentle transitions">> >>
             ELSE << <<"Consistent emotional stability throughout">> >>)
            \o When(sentiments[Len(sentiments)] > 0 /\ MinOf(sentiments) < 0,
                    "Demonstrates emotional resilience and growth")
       ELSE <<>>

EmotionalToneAnalyzer_analyze(v, t) ==
    LET clean_text == clean_transcript(t)
        chunks == extract_chunks(t)
    IN Returned(FormatAll(analyze_overall_tone(v, clean_text)
                          \o analyze_emotional_patterns(chunks)
                          \o analyze_emotional_transitions(v, chunks)))

\* ------------------------------------------------------------------ relatability

experience_indicators ==
    << Value({"career", "job", "switch", "transition", "industry"},
             "Career changers navigating transitions"),
       Value({"business", "startup", "founder", "entrepreneur", "launch"},
             "Entrepreneurs building their vision"),
       Value({"growth", "journey", "learn", "develop", "improve"},
             "Personal growth seekers"),
       Value({"lead", "team", "manage", "responsibility", "guide"},
             "Emerging and established leaders"),
       Value({"create", "art", "design", "express", "creative"},
             "Creative professionals and artists"),
       Value({"stress", "overwhelm", "burnout", "balance", "pressure"},
             "Professionals managing work-life balance") >>

identify_shared_experiences(text) ==
    LET words == word_tokenize(LowerText(text)) IN
    Flatten([i \in DOMAIN experience_indicators |->
               When(HasAny(words, experience_indicators[i].words),
                    experience_indicators[i].phrase)])

ConnectionOfChunk(text) ==
    LET text_lower == LowerText(text)
        words == WordSet(text)
    IN When(Contains(text_lower, "everyone"), "Universal human experiences")
       \o When(ContainsPhrase(text_lower, <<"we", SP, "all">>), "Shared human challenges")
       \o When(ContainsPhrase(text_lower, <<"like", SP, "you">>), "Direct audience connection")
       \o When(Contains(text_lower, "understand"), "Empathetic understanding")
       \o When(AnyIn({"difficult", "struggle", "challenge", "hard"}, words)
               /\ AnyIn({"overcome", "succeed", "achieve", "accomplish"}, words),
               "Relatable journey from struggle to success")

identify_connection_points(chunks) ==
    Flatten([i \in DOMAIN chunks |-> ConnectionOfChunk(chunks[i].text)])

AlignmentOfChunk(text) ==
    LET text_lower == LowerText(text) IN
    When(Contains(text_lower, "corporate"), "Corporate professionals seeking change")
    \o When(Contains(text_lower, "startup"), "Startup founders and entrepreneurs")
    \o When(Contains(text_lower, "creative"), "Creative professionals and artists")
    \o When(Contains(text_lower, "leader"), "Leaders and managers")
    \o When(Contains(text_lower, "expert"), "Subject matter experts")
    \o When(Contains(text_lower, "career"), "Career transition phase")
    \o When(Contains(text_lower, "growth"), "Personal development journey")
    \o When(Contains(text_lower, "change"), "Major life changes")
    \o When(Contains(text_lower, "build"), "Building something new")

identify_audience_alignment(chunks) ==
    Flatten([i \in DOMAIN chunks |-> AlignmentOfChunk(chunks[i].text)])

\* a bug that removes repeated findings as the theme and values agents do
DedupRelatability(t) ==
    LET clean_text == clean_transcript(t)
        chunks == extract_chunks(t)
    IN Returned(UniqueFormatted(identify_shared_experiences(clean_text)
                                \o identify_connection_points(chunks)
                                \o identify_audience_alignment(chunks)))

RelatabilityAssessor_analyze(t) ==
    LET clean_text == clean_transcript(t)
        chunks == extract_chunks(t)
    IN Returned(FormatAll(identify_shared_experiences(clean_text)
                          \o identify_connection_points(chunks)
                          \o identify_audience_alignment(chunks)))

\* ------------------------------------------------------------------ profile

\* analyze_transcript: the five agents in order inside one try block; any
\* exception is re-raised as RuntimeError
analyze_transcript(v, t) ==
    LET voice == VoiceAnalyzer_analyze(t)
        themes == ThemeExtractor_analyze(v, t)
        values == ValuesIdentifier_analyze(t)
        emotional_tone == EmotionalToneAnalyzer_analyze(v, t)
        relatability == RelatabilityAssessor_analyze(t)
    IN IF voice.raised \/ themes.raised \/ values.raised
          \/ emotional_tone.raised \/ relatability.raised
       THEN Raised("RuntimeError")
       ELSE Returned([voice |-> voice.value,
                      themes |-> themes.value,
                      values |-> values.value,
                      emotional_tone |-> emotional_tone.value,
                      relatability |-> relatability.value])

\* ------------------------------------------------------------------ inputs

MaxLines == 4
MaxWords == 2

\* transcripts of arbitrary line structure
ParseLines ==
    { <<>>,
      <<HeaderMark, SP, "1", "]">>,
      <<HeaderMark, SP, "2", "]">>,
      <<TimestampMark, SP, "00:01">>,
      <<SpeakerMark, SP, "I", SP, "grow">>,
      <<SpeakerMark, SP, "we", SP, "all">>,
      <<SpeakerMark, SP>>,
      <<"> Speaker 1:", SP, "hello">> }

RECURSIVE SeqsUpTo(_, _)
SeqsUpTo(S, n) ==
    IF n = 0 THEN { <<>> }
    ELSE LET shorter == SeqsUpTo(S, n - 1) IN
         shorter \cup { Append(s, x) : s \in shorter, x \in S }

ParseTranscripts == { Join(ls, NL) : ls \in SeqsUpTo(ParseLines, MaxLines) }

\* one well-formed chunk whose speaker line holds up to MaxWords words
ScoreWords ==
    { <<"I">>, <<"my">>, <<"We">>, <<"feel">>, <<"when">>, <<"learned">>,
      <<"Grow">>, <<"grow", ".">>, <<"today">> }

ScoreTexts ==
    { Join(ws, SP) : ws \in SeqsUpTo(ScoreWords, MaxWords) }
    \cup { <<"I", SP, "feel", SP, "We", SP, "learned", SP, "when", SP, "win">> }

OneChunk(text) ==
    Join(<< <<HeaderMark, SP, "1", "]">>,
            <<TimestampMark, SP, "00:01">>,
            <<SpeakerMark, SP>> \o text >>, NL)

ScoreTranscripts == { OneChunk(text) : text \in ScoreTexts }

\* one well-formed chunk of three speaker lines
ThreeLineChunk(first, second, third) ==
    Join(<< <<HeaderMark, SP, "1", "]">>,
            <<TimestampMark, SP, "00:01">>,
            <<SpeakerMark, SP>> \o first,
            <<SpeakerMark, SP>> \o second,
            <<SpeakerMark, SP>> \o third >>, NL)

ScenarioTranscripts ==
    { ThreeLineChunk(<<"I", SP, "love", SP, "how", SP, "I", SP, "grew", SP,
                       "and", SP, "learned">>,
                     <<"I", SP, "grew", SP, "stronger">>, third) :
        third \in { <<"I", SP, "learned", SP, "and", SP, "grew">>,
                    <<"I", SP, "grow", SP, "stronger">> } }
    \cup { OneChunk(<<"we", SP, "all", SP, "know", ",", SP, "so", SP, "did",
                      SP, "I", ".">>) }

Transcripts == ParseTranscripts \cup ScoreTranscripts \cup ScenarioTranscripts

NoResult == [raised |-> FALSE, value |-> <<>>]

\* no call has been made
NoHistory ==
    /\ parser = Accumulators(<<>>, <<>>, <<>>, <<>>)
    /\ noted = <<>>
    /\ last_seen = {}
    /\ profile = [k \in {"voice", "themes", "values", "emotional_tone",
                          "relatability"} |-> <<>>]

\* a style_profiler.py process that has not been started
NotStarted ==
    [at |-> "off", argv |-> {}, code |-> 0, update |-> "none",
     opened |-> FALSE, trace |-> <<>>]

\* no request has been made and no process started
NoJobs ==
    /\ world = [readable |-> TRUE, writable |-> TRUE, storage |-> TRUE,
                use_mongodb |-> FALSE]
    /\ proc = [p \in {"subprocess", "manual"} |-> NotStarted]
    /\ metadata = "missing"
    /\ webhook = [code |-> 0, jobId |-> "none"]
    /\ monitor = [state |-> "off", read |-> "none"]
    /\ notified = 0
    /\ answer = [code |-> 0, asked |-> "none", status |-> "none"]

\* the texts of a list of chunks that have words, as the analyzer sees them
SentimentKeys(texts) == { Split(x) : x \in texts } \ { <<>> }

ChunkTexts(chunks) == { chunks[i].text : i \in DOMAIN chunks }

Init ==
    /\ transcript \in Transcripts
    /\ vader = <<>>
    /\ op = "none"
    /\ result = NoResult
    /\ NoHistory
    /\ NoJobs

ExtractChunks ==
    /\ op = "none"
    /\ op' = "extract_chunks"
    /\ result' = Returned(extract_chunks(transcript))
    /\ UNCHANGED <<transcript, vader, history, jobs>>

ScoreChunks ==
    /\ op = "none"
    /\ \E v \in [SentimentKeys(ChunkTexts(extract_chunks(transcript)))
                   -> Sentiments \cup ExtremeSentiments] :
          /\ vader' = v
          /\ result' = Returned(score_chunks(v, transcript))
    /\ op' = "score_chunks"
    /\ UNCHANGED <<transcript, history, jobs>>

\* the whole-transcript text an agent analyses
CleanTranscript ==
    /\ op = "none"
    /\ op' = "clean_transcript"
    /\ result' = Returned(clean_transcript(transcript))
    /\ UNCHANGED <<transcript, vader, history, jobs>>

Next == ExtractChunks \/ ScoreChunks \/ CleanTranscript

Spec == Init /\ [][Next]_vars

\* ------------------------------------------------------------------ agent runs

MaxAgentLines == 3

AgentLines ==
    { <<>>,
      <<HeaderMark, SP, "1", "]">>,
      <<SpeakerMark, SP>>,
      <<SpeakerMark, SP, "truth", SP, "over", SP, "comfort", ".", SP,
        "truth", SP, "over", SP, "all", ".">>,
      <<SpeakerMark, SP, "I", SP, "chose", SP, "hard", SP, "people", SP,
        "must", SP, "learn", SP, "Grow", "?">>,
      <<"> Speaker 1:", SP, "hello">> }

AgentTranscripts == { Join(ls, NL) : ls \in SeqsUpTo(AgentLines, MaxAgentLines) }

\* the texts whose sentiment an agent may ask for
AgentKeys(t) ==
    SentimentKeys(ChunkTexts(extract_chunks(t)) \cup {clean_transcript(t)})

\* the analyzer as an agent run on t may find it; the sentiments on a
\* threshold are tried for the whole cleaned text only
Oracles(t) ==
    { v \in [AgentKeys(t) -> Sentiments \cup ToneCutSentiments] :
        \A k \in DOMAIN v :
            v[k] \in ToneCutSentiments => k = Split(clean_transcript(t)) }

InitAgents ==
    /\ transcript \in AgentTranscripts
    /\ vader = <<>>
    /\ op = "none"
    /\ result = NoResult
    /\ NoHistory
    /\ NoJobs

VoiceAnalyze ==
    /\ op = "none"
    /\ op' = "voice"
    /\ result' = VoiceAnalyzer_analyze(transcript)
    /\ UNCHANGED <<transcript, vader, history, jobs>>

ThemeAnalyze ==
    /\ op = "none"
    /\ \E v \in [AgentKeys(transcript) -> Sentiments] :
          /\ vader' = v
          /\ result' = ThemeExtractor_analyze(v, transcript)
    /\ op' = "themes"
    /\ UNCHANGED <<transcript, history, jobs>>

ValuesAnalyze ==
    /\ op = "none"
    /\ op' = "values"
    /\ result' = ValuesIdentifier_analyze(transcript)
    /\ UNCHANGED <<transcript, vader, history, jobs>>

EmotionalAnalyze ==
    /\ op = "none"
    /\ \E v \in Oracles(transcript) :
          /\ vader' = v
          /\ result' = EmotionalToneAnalyzer_analyze(v, transcript)
    /\ op' = "emotional_tone"
    /\ UNCHANGED <<transcript, history, jobs>>

RelatabilityAnalyze ==
    /\ op = "none"
    /\ op' = "relatability"
    /\ result' = RelatabilityAssessor_analyze(transcript)
    /\ UNCHANGED <<transcript, vader, history, jobs>>

AnalyzeTranscript ==
    /\ op = "none"
    /\ \E v \in Oracles(transcript) :
          /\ vader' = v
          /\ result' = analyze_transcript(v, transcript)
    /\ op' = "analyze_transcript"
    /\ UNCHANGED <<transcript, history, jobs>>

NextAgents ==
    \/ VoiceAnalyze
    \/ ThemeAnalyze
    \/ ValuesAnalyze
    \/ EmotionalAnalyze
    \/ RelatabilityAnalyze
    \/ AnalyzeTranscript

SpecAgents == InitAgents /\ [][NextAgents]_vars

\* ------------------------------------------------------------------ agent runs on several chunks

MaxChunks == 3

\* the lines of the i-th chunk block: header, timestamp and one speaker line
ArcChunk(i) ==
    LET texts == << <<"we", SP, "all", SP, "hard">>,
                    <<"creative", SP, "today">>,
                    <<"We", SP, "all", SP, "win">>,
                    <<"I", SP, "learn">>,
                    <<"we", SP, "all", SP, "grow">>,
                    <<"creative", SP, "people">> >> IN
    << <<HeaderMark, SP, ToString(i), "]">>,
       <<TimestampMark, SP, "00:01">>,
       <<SpeakerMark, SP>> \o texts[((i - 1) % Len(texts)) + 1] >>

ArcTranscripts ==
    { Join(Flatten([i \in 1..k |-> ArcChunk(i)]), NL) : k \in 0..MaxChunks }

InitArcs ==
    /\ transcript \in ArcTranscripts
    /\ vader = <<>>
    /\ op = "none"
    /\ result = NoResult
    /\ NoHistory
    /\ NoJobs

NextArcs ==
    \/ ThemeAnalyze
    \/ EmotionalAnalyze
    \/ RelatabilityAnalyze

SpecArcs == InitArcs /\ [][NextArcs]_vars

\* ------------------------------------------------------------------ emotional patterns over many chunks

MaxPatternChunks == 10

\* n chunk blocks, the first c of them with an optimism and a reflection word
PatternTranscripts ==
    { Join(Flatten([i \in 1..n |->
                      << <<HeaderMark, SP, ToString(i), "]">>,
                         IF i <= c
                         THEN <<SpeakerMark, SP, "I", SP, "hope", SP, "I", SP, "know">>
                         ELSE <<SpeakerMark, SP, "I", SP, "today">> >>]), NL) :
        n \in 1..MaxPatternChunks, c \in 0..4 }

InitPatterns ==
    /\ transcript \in PatternTranscripts
    /\ vader = <<>>
    /\ op = "none"
    /\ result = NoResult
    /\ NoHistory
    /\ NoJobs

NextPatterns == EmotionalAnalyze

SpecPatterns == InitPatterns /\ [][NextPatterns]_vars

\* ------------------------------------------------------------------ agents in any order

MaxFanLines == 3

FanTranscripts ==
    { Join(ls, NL) :
        ls \in SeqsUpTo({ <<HeaderMark, SP, "1", "]">>,
                          <<SpeakerMark, SP, "truth", SP, "over", SP, "comfort",
                            ".", SP, "truth", SP, "over", SP, "all", ".">>,
                          <<SpeakerMark, SP, "I", SP, "chose", SP, "hard", SP,
                            "people", SP, "must", SP, "learn", SP, "Grow", "?">> },
                        MaxFanLines) }

\* the analyzer answers every call the same way
InitFanOut ==
    /\ transcript \in FanTranscripts
    /\ vader \in [AgentKeys(transcript) ->
                     { Sentiment(0, 1000, 0, 0), Sentiment(0, 400, 600, 7000) }]
    /\ op = "none"
    /\ result = NoResult
    /\ NoHistory
    /\ NoJobs

\* one more run of the agent of section k, at any time and after any other
\* runs; the list it returns is stored under k, a run that raises stores
\* nothing
RunAgent(k) ==
    LET r == CASE k = "voice" -> VoiceAnalyzer_analyze(transcript)
               [] k = "themes" ->
                    Returned(DedupLoop(theme_findings(vader, transcript), <<>>,
                                       NewSeen(last_seen)))
               [] k = "values" ->
                    Returned(DedupLoop(values_findings(transcript), <<>>,
                                       NewSeen(last_seen)))
               [] k = "emotional_tone" ->
                    EmotionalToneAnalyzer_analyze(vader, transcript)
               [] k = "relatability" -> RelatabilityAssessor_analyze(transcript)
    IN /\ last_seen' = IF k \in {"themes", "values"}
                  THEN NewSeen(last_seen) \cup Range(r.value)
                  ELSE last_seen
       /\ profile' = IF r.raised THEN profile
                     ELSE [profile EXCEPT ![k] = <<r.value>>]
       /\ UNCHANGED <<transcript, vader, op, result, parser, noted, jobs>>

NextFanOut == \E k \in DOMAIN profile : RunAgent(k)

SpecFanOut == InitFanOut /\ [][NextFanOut]_vars

\* ------------------------------------------------------------------ repeated parser calls

MaxCallLines == 2

CallLines ==
    { <<>>,
      <<HeaderMark, SP, "1", "]">>,
      <<TimestampMark, SP, "00:01">>,
      <<SpeakerMark, SP, "I", SP, "grow">> }

CallTranscripts == { Join(ls, NL) : ls \in SeqsUpTo(CallLines, MaxCallLines) }

InitCalls ==
    /\ transcript = <<>>
    /\ vader = <<>>
    /\ op = "none"
    /\ result = NoResult
    /\ NoHistory
    /\ NoJobs

\* one more call of extract_chunks, on any transcript, on a parser that has
\* served any calls before
ParseCall ==
    /\ \E t \in CallTranscripts, keep \in BOOLEAN :
          LET end == CallEnd(t, parser) IN
          /\ transcript' = t
          /\ parser' = end
          /\ result' = Returned(end.chunks)
          /\ noted' = IF noted = <<>>
                       THEN IF keep
                            THEN << [transcript |-> t, value |-> end.chunks,
                                     between |-> FALSE] >>
                            ELSE noted
                       ELSE << [noted[1] EXCEPT !.between =
                                   @ \/ t # noted[1].transcript] >>
    /\ op' = "extract_chunks"
    /\ UNCHANGED <<vader, last_seen, profile, jobs>>

NextCalls == ParseCall

SpecCalls == InitCalls /\ [][NextCalls]_vars

\* ------------------------------------------------------------------ jobs

\* parse_args: the options the parser declares
KnownOptions ==
    {"--transcript", "--project-id", "--client-id", "--display-name",
     "--output", "--mongodb", "--job-id"}

\* run_style_profiler: the options of the command it launches
WebhookCommand ==
    {"--client-id", "--project-id", "--display-name", "--output-dir",
     "--job-id", "--mongodb"}

\* command lines style_profiler.py is started with by hand
CommandLines ==
    { {},
      {"--transcript"},
      {"--transcript", "--job-id"},
      {"--client-id", "--project-id", "--display-name", "--job-id",
       "--mongodb"} }

\* parse_args: argparse leaves through SystemExit(2) on an option it does not
\* know, and so does parser.error when neither source is given
parse_args(argv) ==
    IF /\ argv \subseteq KnownOptions
       /\ {"--transcript", "--client-id"} \cap argv # {}
    THEN Returned(argv)
    ELSE Raised("SystemExit")

\* a call of the bound method ChunkScorer.score_chunks(self, transcript) with
\* the given positional arguments
CallScoreChunks(v, args) ==
    IF Len(args) = 1
    THEN Returned(score_chunks(v, args[1]))
    ELSE Raised("TypeError")

\* store_style_profile of the backend bound at import: the MongoDB one raises
\* MongoDBQueryError when the operation fails, the Supabase one returns False
store_style_profile(mongodb, persisted) ==
    IF mongodb
    THEN IF persisted THEN Returned(TRUE) ELSE Raised("MongoDBQueryError")
    ELSE Returned(persisted)

\* main, one step of the process pr: what the process is after the step.  A
\* status update that the step asks for is carried out by update_job_status
\* before the next step.
main(pr, w, v, t) ==
    LET job_id == "--job-id" \in pr.argv
        status(s) == IF job_id THEN s ELSE "none"
        pass(next) == [pr EXCEPT !.at = next, !.trace = Append(@, pr.at)]
        \* except Exception: the job is marked failed and the exit code is 1
        unhandled == [pr EXCEPT !.at = "exit", !.code = 1,
                                !.update = status("failed")]
    IN CASE pr.at = "parse_args" ->
              IF parse_args(pr.argv).raised
              THEN [pr EXCEPT !.at = "exited", !.code = 2]
              ELSE [pr EXCEPT !.at = "load", !.update = status("processing")]
         [] pr.at = "load" ->
              IF w.readable /\ t # <<>> THEN pass("analyze") ELSE unhandled
         [] pr.at = "analyze" ->
              IF analyze_transcript(v, t).raised
              THEN unhandled
              ELSE pass("markdown")
         [] pr.at = "markdown" ->
              IF w.writable THEN pass("score") ELSE unhandled
         [] pr.at = "score" ->
              IF CallScoreChunks(v, <<t, "profile">>).raised
              THEN unhandled
              ELSE pass("save")
         [] pr.at = "save" ->
              IF w.writable THEN pass("store") ELSE unhandled
         [] pr.at = "store" ->
              LET stored == store_style_profile(w.use_mongodb, w.storage) IN
              IF stored.raised
              THEN [pr EXCEPT !.at = "exit", !.update = status("failed")]
              ELSE [pass("exit") EXCEPT !.update = status("completed")]
         [] pr.at = "exit" -> [pr EXCEPT !.at = "exited"]

\* transcripts the job layer runs on: an empty source, one without a speaker
\* line, one chunk with a speaker line
JobTranscripts ==
    { <<>>,
      <<HeaderMark, SP, "01", "]">>,
      Join(<< <<HeaderMark, SP, "01", "]">>,
              <<SpeakerMark, SP, "I", SP, "hope", ".">> >>, NL) }

InitJobs ==
    /\ transcript \in JobTranscripts
    /\ vader \in Oracles(transcript)
    /\ op = "none"
    /\ result = NoResult
    /\ NoHistory
    /\ world \in [readable : BOOLEAN, writable : BOOLEAN, storage : BOOLEAN,
                  use_mongodb : BOOLEAN]
    /\ proc = [p \in {"subprocess", "manual"} |-> NotStarted]
    /\ metadata = "missing"
    /\ webhook = [code |-> 0, jobId |-> "none"]
    /\ monitor = [state |-> "off", read |-> "none"]
    /\ notified = 0
    /\ answer = [code |-> 0, asked |-> "none", status |-> "none"]

core == <<transcript, vader, op, result, history>>

\* POST /webhook/process-transcript: the request is refused, or
\* run_style_profiler writes job_metadata.json with status running, launches
\* the subprocess, starts the monitor thread and returns the job id; when the
\* launch raises it returns None and the answer is 500
process_transcript ==
    /\ metadata = "missing"
    /\ \E request \in {"bad key", "no data", "no ids", "ok"},
          launched \in BOOLEAN :
          IF request # "ok"
          THEN /\ webhook' = [code |-> IF request = "bad key" THEN 401 ELSE 400,
                              jobId |-> "none"]
               /\ UNCHANGED <<metadata, proc, monitor>>
          ELSE /\ metadata' = "running"
               /\ IF launched
                  THEN /\ proc' = [proc EXCEPT !["subprocess"] =
                                     [NotStarted EXCEPT !.at = "parse_args",
                                                        !.argv = WebhookCommand]]
                       /\ monitor' = [monitor EXCEPT !.state = "waiting"]
                       /\ webhook' = [code |-> 200, jobId |-> "job"]
                  ELSE /\ webhook' = [code |-> 500, jobId |-> "none"]
                       /\ UNCHANGED <<proc, monitor>>
    /\ UNCHANGED <<core, world, notified, answer>>

\* style_profiler.py started from a command line; a job id given is the one
\* the webhook returned
RunFromCommandLine ==
    /\ proc["manual"].at = "off"
    /\ \E argv \in CommandLines :
          /\ "--job-id" \in argv => webhook.jobId = "job"
          /\ proc' = [proc EXCEPT !["manual"] =
                        [NotStarted EXCEPT !.at = "parse_args", !.argv = argv]]
    /\ UNCHANGED <<core, world, metadata, webhook, monitor, notified, answer>>

Main(p) ==
    /\ proc[p].at \notin {"off", "exited"}
    /\ proc[p].update = "none"
    /\ proc' = [proc EXCEPT ![p] = main(proc[p], world, vader, transcript)]
    /\ UNCHANGED <<core, world, metadata, webhook, monitor, notified, answer>>

\* update_job_status: returns when the file is missing, gives up when it
\* cannot be parsed, else opens it for writing, which empties it, and then
\* dumps the metadata with the new status
update_job_status(p) ==
    /\ proc[p].update # "none"
    /\ \/ /\ ~proc[p].opened
          /\ IF metadata \in {"missing", "empty"}
             THEN /\ proc' = [proc EXCEPT ![p].update = "none"]
                  /\ UNCHANGED metadata
             ELSE /\ proc' = [proc EXCEPT ![p].opened = TRUE]
                  /\ metadata' = "empty"
       \/ /\ proc[p].opened
          /\ metadata' = proc[p].update
          /\ proc' = [proc EXCEPT ![p].update = "none", ![p].opened = FALSE]
    /\ UNCHANGED <<core, world, webhook, monitor, notified, answer>>

\* a monitor that runs notify_app3.py whatever status it read
NotifyAnyStatus ==
    /\ monitor.state = "waiting"
    /\ proc["subprocess"].at = "exited"
    /\ monitor' = [state |-> "done", read |-> metadata]
    /\ notified' = notified + 1
    /\ UNCHANGED <<core, world, proc, metadata, webhook, answer>>

\* the monitor thread: after process.wait() it reads job_metadata.json and
\* runs notify_app3.py when the status is completed; a file that cannot be
\* parsed is logged
monitor_job_completion ==
    /\ monitor.state = "waiting"
    /\ proc["subprocess"].at = "exited"
    /\ monitor' = [state |-> "done", read |-> metadata]
    /\ notified' = IF metadata = "completed" THEN notified + 1 ELSE notified
    /\ UNCHANGED <<core, world, proc, metadata, webhook, answer>>

\* GET /jobs/<job_id>, for the id the webhook returned or for another one
get_job_status ==
    /\ \E key \in BOOLEAN, job_id \in {"job", "other"} :
          /\ job_id = "job" => webhook.jobId = "job"
          /\ answer' =
               IF ~key
               THEN [code |-> 401, asked |-> job_id, status |-> "none"]
               ELSE IF job_id # "job"
               THEN [code |-> 404, asked |-> job_id, status |-> "none"]
               ELSE IF metadata \in {"missing", "empty"}
               THEN [code |-> 500, asked |-> job_id, status |-> "none"]
               ELSE [code |-> 200, asked |-> job_id, status |-> metadata]
    /\ UNCHANGED <<core, world, proc, metadata, webhook, monitor, notified>>

NextJobs ==
    \/ process_transcript
    \/ RunFromCommandLine
    \/ \E p \in DOMAIN proc : Main(p)
    \/ \E p \in DOMAIN proc : update_job_status(p)
    \/ monitor_job_completion
    \/ get_job_status

SpecJobs == InitJobs /\ [][NextJobs]_vars

\* ------------------------------------------------------------------ properties

Lines == SplitLines(transcript)

IsHeader(line) == StartsWith(line, HeaderMark)
IsSpeaker(line) == StartsWith(line, SpeakerMark)
IsTimestamp(line) == StartsWith(line, TimestampMark)

SpokenPart(line) == Strip(Replace(line, SpeakerMark))

Parsed == op = "extract_chunks"
Scored == op = "score_chunks"

\* the chunks whose record survives in the score mapping: the last of each id
Chunks == extract_chunks(transcript)

IsLastOfId(i) == \A j \in DOMAIN Chunks : j > i => Chunks[j].id # Chunks[i].id

\* C1 as stated: every chunk returned by extract_chunks has a non-empty id
\* and a non-empty text.
C1_NonEmptyIdAndText ==
    Parsed => \A i \in DOMAIN result.value :
                 /\ result.value[i].id # <<>>
                 /\ result.value[i].text # <<>>

\* C1 amended: every chunk returned by extract_chunks has a non-empty id, and
\* its text is empty only when the transcript holds a "> Speaker 2:" line
\* with nothing but whitespace after the marker; there are never more chunks
\* than "> Speaker 2:" lines.
C1_NonEmptyIdTextFromSpeakerLines ==
    Parsed =>
        /\ \A i \in DOMAIN result.value :
              /\ result.value[i].id # <<>>
              /\ result.value[i].text = <<>> =>
                    \E k \in DOMAIN Lines :
                        IsSpeaker(Lines[k]) /\ SpokenPart(Lines[k]) = <<>>
        /\ Len(result.value) <= Cardinality({k \in DOMAIN Lines : IsSpeaker(Lines[k])})

C1_Witness ==
    /\ Parsed
    /\ \E i, j \in DOMAIN result.value :
          result.value[i].text = <<>> /\ result.value[j].text # <<>>

\* the length of the run of non-header lines at the front of ls
RECURSIVE BodyLen(_)
BodyLen(ls) ==
    IF ls = <<>> \/ IsHeader(Head(ls)) THEN 0 ELSE 1 + BodyLen(Tail(ls))

HasSpeakerLine(ls) == \E k \in DOMAIN ls : IsSpeaker(ls[k])

\* the lines with every header span that has no "> Speaker 2:" line removed
RECURSIVE WithoutEmptySpans(_)
WithoutEmptySpans(ls) ==
    IF ls = <<>> THEN <<>>
    ELSE IF IsHeader(Head(ls))
    THEN LET n == BodyLen(Tail(ls))
             span == SubSeq(ls, 1, 1 + n)
             rest == SubSeq(ls, 2 + n, Len(ls))
         IN (IF HasSpeakerLine(span) THEN span ELSE <<>>) \o WithoutEmptySpans(rest)
    ELSE <<Head(ls)>> \o WithoutEmptySpans(Tail(ls))

RECURSIVE SpokenSpans(_)
SpokenSpans(ls) ==
    IF ls = <<>> THEN 0
    ELSE IF IsHeader(Head(ls))
    THEN LET n == BodyLen(Tail(ls)) IN
         (IF HasSpeakerLine(SubSeq(ls, 1, 1 + n)) THEN 1 ELSE 0)
         + SpokenSpans(SubSeq(ls, 2 + n, Len(ls)))
    ELSE SpokenSpans(Tail(ls))

\* C2: a header span without a "> Speaker 2:" line produces no chunk and no
\* error, and the chunks before and after it are emitted unchanged: the
\* result is the one of the transcript with those spans taken out.
C2_EmptySpanDroppedOthersUnchanged ==
    Parsed =>
        /\ ~result.raised
        /\ Len(result.value) = SpokenSpans(Lines)
        /\ result.value = extract_chunks(Join(WithoutEmptySpans(Lines), NL))

\* C3: a transcript without a header line yields the empty chunk sequence
\* and the empty score mapping, and nothing is raised.
C3_NoHeaderNoChunksNoScores ==
    ((Parsed \/ Scored) /\ \A k \in DOMAIN Lines : ~IsHeader(Lines[k])) =>
        /\ ~result.raised
        /\ DOMAIN result.value = {}

C3_Witness ==
    /\ Scored
    /\ \A k \in DOMAIN Lines : ~IsHeader(Lines[k])
    /\ \E k \in DOMAIN Lines : IsSpeaker(Lines[k]) /\ SpokenPart(Lines[k]) # <<>>
    /\ \E k \in DOMAIN Lines : IsTimestamp(Lines[k])

\* C4: both stored scores lie in [0, 1] (0..100 hundredths) whatever the
\* sentiment analyzer returned.
C4_ScoresWithinBounds ==
    Scored => \A id \in DOMAIN result.value :
                 /\ result.value[id].emotional_tone_score \in 0..100
                 /\ result.value[id].relatability_score \in 0..100

\* the analyzer's value lies outside its documented ranges and the clamp acts
C4_Witness ==
    /\ Scored
    /\ \E id \in DOMAIN result.value : result.value[id].emotional_tone_score = 100
    /\ \E id \in DOMAIN result.value : result.value[id].emotional_tone_score = 0
    /\ \E k \in DOMAIN vader : vader[k].pos + vader[k].neg > 1000

\* the one-word members of an indicator set that occur in a word set
Hits(indicators, words) == { k \in indicators : <<k>> \in words }

\* C5: relatability_score is 0.2 times the number of the five indicator
\* groups that meet the chunk's lower-cased word set, each group counted once.
C5_RelatabilityCountsGroups ==
    Scored => \A i \in DOMAIN Chunks : IsLastOfId(i) =>
        LET words == WordSet(Chunks[i].text)
            groups == { g \in { personal_pronouns, universal_indicators,
                                emotional_words, story_indicators,
                                resolution_indicators } : Hits(g, words) # {} }
        IN /\ result.value[Chunks[i].id].relatability_score = 20 * Cardinality(groups)
           /\ result.value[Chunks[i].id].relatability_score \in {0, 20, 40, 60, 80, 100}

\* two words of one group occur and the group counts once
C5_Witness ==
    /\ Scored
    /\ \E i \in DOMAIN Chunks :
          /\ Cardinality(Hits(personal_pronouns, WordSet(Chunks[i].text))) = 2
          /\ result.value[Chunks[i].id].relatability_score = 20

\* C6: emotional_tone_score is clamp01(0.7 * ((compound + 1) / 2) + 0.3 *
\* (pos + neg)) of the chunk's own text, rounded to 2 decimals: the stored
\* hundredths are within half a hundredth of the exact value.
C6_EmotionalScoreOfOwnText ==
    Scored => \A i \in DOMAIN Chunks : IsLastOfId(i) =>
        LET key == Split(Chunks[i].text)
            s == IF key = <<>> THEN ZeroSentiment ELSE vader[key]
            raw == 7 * (s.compound + 10000) + 60 * (s.pos + s.neg)
            exact == IF raw < 0 THEN 0 ELSE IF raw > 200000 THEN 200000 ELSE raw
            stored == result.value[Chunks[i].id].emotional_tone_score
        IN /\ 2000 * stored - exact <= 1000
           /\ exact - 2000 * stored <= 1000

\* two chunks with different texts, sentiments and scores
C6_Witness ==
    /\ Scored
    /\ \E i, j \in DOMAIN Chunks :
          /\ Chunks[i].id # Chunks[j].id
          /\ Split(Chunks[i].text) # <<>> /\ Split(Chunks[j].text) # <<>>
          /\ vader[Split(Chunks[i].text)] # vader[Split(Chunks[j].text)]
          /\ result.value[Chunks[i].id].emotional_tone_score
                # result.value[Chunks[j].id].emotional_tone_score

ThemeNames ==
    { "inspiration", "insight", "expertise", "story", "advice", "reflection",
      "action", "challenge", "success", "growth" }

KeywordsOf(name) ==
    LET i == CHOOSE k \in DOMAIN theme_categories : theme_categories[k].name = name
    IN theme_categories[i].indicators

\* C7: a category is in theme_tags exactly when one of its keywords is in the
\* chunk's lower-cased word set; only the ten categories occur, each once.
C7_ThemeTagsByMembership ==
    Scored => \A i \in DOMAIN Chunks : IsLastOfId(i) =>
        LET words == WordSet(Chunks[i].text)
            tags == result.value[Chunks[i].id].theme_tags
        IN /\ \A name \in ThemeNames :
                 (\E k \in DOMAIN tags : tags[k] = name)
                     <=> (Hits(KeywordsOf(name), words) # {})
           /\ Range(tags) \subseteq ThemeNames
           /\ Cardinality(Range(tags)) = Len(tags)

\* an upper-case keyword is tagged, and a keyword with punctuation attached
\* is not
C7_Witness ==
    /\ Scored
    /\ \E i \in DOMAIN Chunks :
          /\ "Grow" \in Range(Chunks[i].text)
          /\ result.value[Chunks[i].id].theme_tags = <<"reflection", "growth">>

\* the findings of the sub-analyses, in the agent's order, formatted
RawThemes ==
    FormatAll(identify_key_themes(clean_transcript(transcript))
              \o identify_narrative_arcs(vader, Chunks)
              \o identify_recurring_concepts(Chunks))

RawValues ==
    FormatAll(identify_explicit_values(clean_transcript(transcript))
              \o identify_implicit_values(Chunks)
              \o identify_priority_values(Chunks))

\* out is raw with every occurrence after the first removed
IsFirstOccurrences(out, raw) ==
    LET firsts == { i \in DOMAIN raw : \A j \in 1..(i - 1) : raw[j] # raw[i] }
        nth(k) == CHOOSE i \in firsts : Cardinality({ j \in firsts : j < i }) = k - 1
    IN /\ Len(out) = Cardinality(firsts)
       /\ \A k \in DOMAIN out : out[k] = raw[nth(k)]

NoDuplicates(out) == \A i, j \in DOMAIN out : out[i] = out[j] => i = j

\* C8: ThemeExtractor.analyze and ValuesIdentifier.analyze return no finding
\* twice, and return the concatenated sub-analysis findings with every
\* occurrence after the first removed.
C8_DedupKeepsFirstOccurrence ==
    /\ op = "themes" =>
          /\ ~result.raised
          /\ NoDuplicates(result.value)
          /\ IsFirstOccurrences(result.value, RawThemes)
    /\ op = "values" =>
          /\ ~result.raised
          /\ NoDuplicates(result.value)
          /\ IsFirstOccurrences(result.value, RawValues)

\* a finding produced twice is returned once, between two others
C8_Witness ==
    /\ op = "values"
    /\ ~NoDuplicates(RawValues)
    /\ Len(result.value) >= 3
    /\ \E i \in DOMAIN RawValues :
          /\ RawValues[i] = <<"Truth over comfort">>
          /\ \E j \in (i + 1)..Len(RawValues) : RawValues[j] = <<"Truth over comfort">>

SectionKeys == {"voice", "themes", "values", "emotional_tone", "relatability"}

IsList(x) == DOMAIN x = 1..Len(x)

\* C9: for every transcript, the empty string and transcripts without chunks
\* included, analyze_transcript returns a mapping with exactly the five
\* section keys, each mapped to a list.
C9_FiveSectionsAlways ==
    op = "analyze_transcript" =>
        /\ ~result.raised
        /\ DOMAIN result.value = SectionKeys
        /\ \A k \in SectionKeys : IsList(result.value[k])

\* C10: on a transcript with zero chunks and no subject-speaker text each of
\* the five agents' analyze returns a list and does not raise.
C10_AgentsReturnOnEmptyInput ==
    (/\ op \in SectionKeys
     /\ Chunks = <<>>
     /\ Split(clean_transcript(transcript)) = <<>>) =>
        /\ ~result.raised
        /\ IsList(result.value)

\* the agent whose analyze fills a section, run on its own
AgentResult(k) ==
    CASE k = "voice" -> VoiceAnalyzer_analyze(transcript)
      [] k = "themes" -> ThemeExtractor_analyze(vader, transcript)
      [] k = "values" -> ValuesIdentifier_analyze(transcript)
      [] k = "emotional_tone" -> EmotionalToneAnalyzer_analyze(vader, transcript)
      [] k = "relatability" -> RelatabilityAssessor_analyze(transcript)

\* C11: when one agent's analyze raises, analyze_transcript still returns a
\* profile, in which the sections of the four other agents hold the lists
\* those agents produce.
C11_PartialProfileOnAgentFault ==
    (/\ op = "analyze_transcript"
     /\ \E k \in SectionKeys :
           /\ AgentResult(k).raised
           /\ \A j \in SectionKeys \ {k} : ~AgentResult(j).raised) =>
        /\ ~result.raised
        /\ \A j \in SectionKeys :
              ~AgentResult(j).raised =>
                 /\ j \in DOMAIN result.value
                 /\ result.value[j] = AgentResult(j).value

\* C12: two calls of extract_chunks on the same transcript return the same
\* sequence of chunks, whatever calls on other transcripts came between them.
C12_SameTranscriptSameChunks ==
    (/\ op = "extract_chunks"
     /\ noted # <<>>
     /\ transcript = noted[1].transcript) =>
        result = Returned(noted[1].value)

\* the transcript of the noted call is parsed again after a call on another
\* transcript, and yields a chunk
C12_Witness ==
    /\ op = "extract_chunks"
    /\ noted # <<>>
    /\ noted[1].between
    /\ transcript = noted[1].transcript
    /\ result.value # <<>>

\* the tokens of phrase stand in text one after the other
HasPhrase(text, phrase) ==
    \E i \in 0..(Len(text) - Len(phrase)) :
        \A k \in DOMAIN phrase : text[i + k] = phrase[k]

\* C13: a chunk whose text contains the phrase "we all" and the pronoun "I"
\* gets a relatability_score of at least 0.4.
C13_WeAllAndIScoreAtLeastTwoGroups ==
    Scored => \A i \in DOMAIN Chunks :
        (/\ IsLastOfId(i)
         /\ HasPhrase(Chunks[i].text, <<"we", SP, "all">>)
         /\ HasPhrase(Chunks[i].text, <<"I">>)) =>
            result.value[Chunks[i].id].relatability_score >= 40

\* the speaker lines of the transcript, marker removed
SpokenLines ==
    LET idx == { i \in DOMAIN Lines : IsSpeaker(Lines[i]) }
        nth(k) == CHOOSE i \in idx : Cardinality({ j \in idx : j < i }) = k - 1
    IN [k \in 1..Cardinality(idx) |-> SpokenPart(Lines[nth(k)])]

\* C14: for a transcript of one chunk header '## [Chunk 1]', a timestamp line
\* and three speaker lines of growth-oriented language, one of them "I love
\* how I grew and learned", score_chunks returns a record for the chunk whose
\* theme_tags includes 'growth'.
C14_GrowthScenarioTaggedGrowth ==
    (/\ Scored
     /\ Len(Lines) = 5
     /\ Lines[1] = <<HeaderMark, SP, "1", "]">>
     /\ IsTimestamp(Lines[2])
     /\ Len(SpokenLines) = 3
     /\ \E k \in 1..3 :
           SpokenLines[k] = <<"I", SP, "love", SP, "how", SP, "I", SP, "grew",
                             SP, "and", SP, "learned">>) =>
        /\ DOMAIN result.value = { <<HeaderMark, SP, "1">> }
        /\ "growth" \in Range(result.value[<<HeaderMark, SP, "1">>].theme_tags)

\* the compound sentiment of the i-th chunk's text
CompoundOf(i) == polarity_scores(vader, Chunks[i].text).compound

Emits(finding) == \E k \in DOMAIN result.value : result.value[k] = <<finding>>

\* C15: the theme analysis emits 'Journey from challenge to triumph' exactly
\* when there are at least 3 chunks, the first chunk's compound sentiment is
\* below 0 and the last chunk's is above 0.
C15_ChallengeToTriumphArc ==
    op = "themes" =>
        /\ ~result.raised
        /\ Emits("Journey from challenge to triumph")
              <=> (/\ Len(Chunks) >= 3
                   /\ CompoundOf(1) < 0
                   /\ CompoundOf(Len(Chunks)) > 0)

\* three chunks with compounds -0.6, 0.1 and 0.7, and the finding is emitted
C15_Witness ==
    /\ op = "themes"
    /\ Len(Chunks) = 3
    /\ CompoundOf(1) = -6000
    /\ CompoundOf(2) = 1000
    /\ CompoundOf(3) = 7000
    /\ Emits("Journey from challenge to triumph")

RECURSIVE OwnTimestamp(_)
OwnTimestamp(ls) ==
    IF ls = <<>> THEN <<>>
    ELSE IF IsHeader(Head(ls))
    THEN LET n == BodyLen(Tail(ls))
             span == SubSeq(ls, 1, 1 + n)
         IN (IF HasSpeakerLine(span)
             THEN << \E k \in DOMAIN span : IsTimestamp(span[k]) >>
             ELSE <<>>)
            \o OwnTimestamp(SubSeq(ls, 2 + n, Len(ls)))
    ELSE OwnTimestamp(Tail(ls))

\* C17: every header line resets the id, the timestamp and the collected
\* lines, so a chunk whose span has no timestamp line is emitted with an
\* empty timestamp.
C17_HeaderResetsTimestamp ==
    Parsed =>
        /\ Len(result.value) = Len(OwnTimestamp(Lines))
        /\ \A i \in DOMAIN result.value :
              ~OwnTimestamp(Lines)[i] => result.value[i].timestamp = <<>>

IsMarked(line) == IsHeader(line) \/ IsTimestamp(line) \/ IsSpeaker(line)

\* the lines that start with one of the three markers, in order
MarkedLines(ls) == SelectSeq(ls, IsMarked)

\* for every header span with a speaker line, in order: its speaker lines,
\* marker removed and trimmed, joined by newlines
RECURSIVE SpanTexts(_)
SpanTexts(ls) ==
    IF ls = <<>> THEN <<>>
    ELSE IF IsHeader(Head(ls))
    THEN LET n == BodyLen(Tail(ls))
             span == SubSeq(ls, 1, 1 + n)
             spoken == SelectSeq(span, IsSpeaker)
         IN (IF spoken # <<>>
             THEN << Join([k \in DOMAIN spoken |-> SpokenPart(spoken[k])], NL) >>
             ELSE <<>>)
            \o SpanTexts(SubSeq(ls, 2 + n, Len(ls)))
    ELSE SpanTexts(Tail(ls))

\* C18: the chunks depend only on the lines that start with one of the three
\* markers (the transcript without its other lines yields the same chunks),
\* and each chunk's text is its speaker lines, marker removed and trimmed, in
\* order, joined by newlines.
C18_OnlyMarkedLinesCount ==
    Parsed =>
        /\ result.value = extract_chunks(Join(MarkedLines(Lines), NL))
        /\ Len(result.value) = Len(SpanTexts(Lines))
        /\ \A i \in DOMAIN result.value : result.value[i].text = SpanTexts(Lines)[i]

\* a line of another speaker stands between two speaker lines of a chunk, and
\* the chunk's text is the two speaker lines
C18_Witness ==
    /\ Parsed
    /\ \E k \in DOMAIN Lines :
          /\ k > 1 /\ k < Len(Lines)
          /\ ~IsMarked(Lines[k]) /\ Lines[k] # <<>>
          /\ IsSpeaker(Lines[k - 1]) /\ IsSpeaker(Lines[k + 1])
    /\ Len(result.value) = 1
    /\ result.value[1].text = <<"I", SP, "grow", NL, "we", SP, "all">>

ArcFindings ==
    { "Journey from challenge to triumph",
      "Reflective exploration of highs and lows" }

TransitionFindings ==
    { "Dynamic emotional range with clear transitions",
      "Natural emotional flow with gentle transitions",
      "Consistent emotional stability throughout" }

\* C19: with fewer than 3 chunks the narrative-arc and the emotional-
\* transition analyses emit no finding and nothing is raised; with 3 or more
\* chunks the emotional-transition analysis emits exactly one of its three
\* stability/transition findings.
C19_ShortInputNoArcOneTransition ==
    /\ op = "themes" =>
          /\ ~result.raised
          /\ Len(Chunks) < 3 => \A f \in ArcFindings : ~Emits(f)
    /\ op = "emotional_tone" =>
          /\ ~result.raised
          /\ Len(Chunks) < 3 =>
                \A f \in TransitionFindings
                         \cup {"Demonstrates emotional resilience and growth"} :
                    ~Emits(f)
          /\ Len(Chunks) >= 3 =>
                Cardinality({ k \in DOMAIN result.value :
                                \E f \in TransitionFindings :
                                    result.value[k] = <<f>> }) = 1

\* three chunks whose mean sentiment change lies between the two thresholds
C19_Witness ==
    /\ op = "emotional_tone"
    /\ Len(Chunks) = 3
    /\ Emits("Natural emotional flow with gentle transitions")
    /\ Emits("Demonstrates emotional resilience and growth")

ToneFindings ==
    { "Predominantly optimistic and positive outlook",
      "Generally hopeful with balanced perspective",
      "Measured and pragmatic emotional tone",
      "Reflective and growth-focused perspective" }

\* the compound sentiment of the whole cleaned text
OverallCompound == polarity_scores(vader, clean_transcript(transcript)).compound

\* C20: for a compound sentiment in [-1, 1] the overall-tone analysis emits
\* exactly one of its four tone findings: the first band, tested from the top
\* (> 0.5, > 0.2, > -0.2, the rest), that the compound falls in, so that a
\* compound equal to a threshold gets the finding of the band below it.
C20_OneToneBandStrictThresholds ==
    (/\ op = "emotional_tone"
     /\ OverallCompound >= -10000
     /\ OverallCompound <= 10000) =>
        /\ Cardinality({ k \in DOMAIN result.value :
                           \E f \in ToneFindings : result.value[k] = <<f>> }) = 1
        /\ Emits(IF OverallCompound > 5000
                 THEN "Predominantly optimistic and positive outlook"
                 ELSE IF OverallCompound > 2000
                 THEN "Generally hopeful with balanced perspective"
                 ELSE IF OverallCompound > -2000
                 THEN "Measured and pragmatic emotional tone"
                 ELSE "Reflective and growth-focused perspective")
        /\ OverallCompound = 5000 =>
              Emits("Generally hopeful with balanced perspective")
        /\ OverallCompound = 2000 =>
              Emits("Measured and pragmatic emotional tone")
        /\ OverallCompound = -2000 =>
              Emits("Reflective and growth-focused perspective")

\* the compound is exactly 0.5 and the finding is the one of the second band
C20_Witness ==
    /\ op = "emotional_tone"
    /\ OverallCompound = 5000
    /\ Emits("Generally hopeful with balanced perspective")
    /\ ~Emits("Predominantly optimistic and positive outlook")

\* C21: when several emitted chunks share an id, score_chunks holds one entry
\* for the id, the score record of the last of them; the keys of the result
\* are the distinct ids of the emitted chunks.
C21_DuplicateIdLastWriteWins ==
    Scored =>
        /\ ~result.raised
        /\ DOMAIN result.value = { Chunks[i].id : i \in DOMAIN Chunks }
        /\ \A i \in DOMAIN Chunks :
              IsLastOfId(i) =>
                 result.value[Chunks[i].id] = score_chunk(vader, Chunks[i].text)

\* two chunks of one id with different score records, one key
C21_Witness ==
    /\ Scored
    /\ Len(Chunks) = 2
    /\ Chunks[1].id = Chunks[2].id
    /\ score_chunk(vader, Chunks[1].text) # score_chunk(vader, Chunks[2].text)
    /\ Cardinality(DOMAIN result.value) = 1
    /\ result.value[Chunks[2].id] = score_chunk(vader, Chunks[2].text)

\* how often the finding stands in the returned list
Occurrences(finding) ==
    Cardinality({ k \in DOMAIN result.value : result.value[k] = <<finding>> })

\* the emitted chunks whose lower-cased text holds the phrase
ChunksWith(phrase) ==
    { i \in DOMAIN Chunks : HasPhrase(LowerText(Chunks[i].text), phrase) }

\* C22: RelatabilityAssessor.analyze does not deduplicate: the finding of a
\* connection-point or audience-alignment indicator that occurs in k chunks
\* is returned k times, and a finding that two sub-analyses produce is
\* returned once per sub-analysis.
C22_RelatabilityKeepsRepeats ==
    op = "relatability" =>
        /\ ~result.raised
        /\ Occurrences("Shared human challenges")
              = Cardinality(ChunksWith(<<"we", SP, "all">>))
        /\ Occurrences("Startup founders and entrepreneurs")
              = Cardinality(ChunksWith(<<"startup">>))
        /\ Occurrences("Creative professionals and artists")
              = Cardinality(ChunksWith(<<"creative">>))
                + (IF "creative" \in Range(LowerText(clean_transcript(transcript)))
                   THEN 1 ELSE 0)

\* "we all" in two chunks and "creative" in one: both findings twice
C22_Witness ==
    /\ op = "relatability"
    /\ Cardinality(ChunksWith(<<"we", SP, "all">>)) = 2
    /\ Occurrences("Shared human challenges") = 2
    /\ Cardinality(ChunksWith(<<"creative">>)) = 1
    /\ Occurrences("Creative professionals and artists") = 2

\* the number of emitted chunks with one of the words in their word set
ChunksWithAny(indicators) ==
    Cardinality({ i \in DOMAIN Chunks : AnyIn(indicators, WordSet(Chunks[i].text)) })

\* C23: with at least one chunk, 'Consistently optimistic undertone' (resp.
\* 'Deeply reflective and self-aware') is emitted whenever the chunks with an
\* optimism (resp. reflection) word are at least 30% of the chunks.
C23_PatternAtThirtyPercent ==
    (op = "emotional_tone" /\ Len(Chunks) >= 1) =>
        /\ 10 * ChunksWithAny(optimism_words) >= 3 * Len(Chunks)
              => Emits("Consistently optimistic undertone")
        /\ 10 * ChunksWithAny(reflection_words) >= 3 * Len(Chunks)
              => Emits("Deeply reflective and self-aware")

\* the texts of the chunks in order, newlines replaced by spaces, joined by
\* spaces
SpacedChunkTexts ==
    Join([i \in DOMAIN Chunks |->
            [k \in DOMAIN Chunks[i].text |->
                IF Chunks[i].text[k] = NL THEN SP ELSE Chunks[i].text[k]]], SP)

\* C24 as stated: for every transcript the cleaned text is the texts of the
\* emitted chunks, in order, newlines replaced by spaces.
C24_CleanTextIsChunkTexts ==
    op = "clean_transcript" => result.value = SpacedChunkTexts

\* every speaker line stands after some header line
SpeakerLinesUnderHeaders ==
    \A k \in DOMAIN Lines :
        IsSpeaker(Lines[k]) => \E j \in 1..(k - 1) : IsHeader(Lines[j])

\* C24 amended: for every transcript whose speaker lines all stand after a
\* header line, the cleaned text is the texts of the emitted chunks, in
\* order, newlines replaced by spaces.
C24_CleanTextIsChunkTextsUnderHeaders ==
    (op = "clean_transcript" /\ SpeakerLinesUnderHeaders) =>
        result.value = SpacedChunkTexts

\* two chunks, one of them with a speaker line without text
C24_Witness ==
    /\ op = "clean_transcript"
    /\ SpeakerLinesUnderHeaders
    /\ Len(Chunks) = 2
    /\ \E k \in DOMAIN Lines : IsSpeaker(Lines[k]) /\ SpokenPart(Lines[k]) = <<>>
    /\ Split(result.value) # <<>>

\* the documented output contract of the sentiment analyzer
InContract(s) ==
    /\ s.compound >= -10000 /\ s.compound <= 10000
    /\ s.neg \in 0..1000 /\ s.neu \in 0..1000 /\ s.pos \in 0..1000
    /\ s.neg + s.neu + s.pos = 1000

\* 0.7 * ((compound + 1) / 2) + 0.3 * (pos + neg), in 1/200000
UnclampedValue(s) == 7 * (s.compound + 10000) + 60 * (s.pos + s.neg)

\* C25: for a sentiment record within the documented contract the unclamped
\* value already lies in [0, 1], so the stored emotional_tone_score is that
\* value rounded and the clamp changes nothing.
C25_ClampIdleWithinContract ==
    Scored => \A i \in DOMAIN Chunks :
        (/\ IsLastOfId(i)
         /\ Split(Chunks[i].text) # <<>>
         /\ InContract(vader[Split(Chunks[i].text)])) =>
            LET s == vader[Split(Chunks[i].text)] IN
            /\ UnclampedValue(s) >= 0
            /\ UnclampedValue(s) <= One
            /\ result.value[Chunks[i].id].emotional_tone_score
                  = Round2(UnclampedValue(s))

\* both ends of the contract occur: the unclamped value is exactly 1 and
\* exactly 0
C25_Witness ==
    /\ Scored
    /\ \E i, j \in DOMAIN Chunks :
          /\ IsLastOfId(i) /\ IsLastOfId(j)
          /\ Split(Chunks[i].text) # <<>> /\ Split(Chunks[j].text) # <<>>
          /\ InContract(vader[Split(Chunks[i].text)])
          /\ InContract(vader[Split(Chunks[j].text)])
          /\ UnclampedValue(vader[Split(Chunks[i].text)]) = One
          /\ UnclampedValue(vader[Split(Chunks[j].text)]) = 0
          /\ result.value[Chunks[i].id].emotional_tone_score = 100
          /\ result.value[Chunks[j].id].emotional_tone_score = 0

\* ---- the job layer

Statuses == {"running", "processing", "completed", "failed"}

JobMode(p) == "--job-id" \in proc[p].argv

\* nothing outside the program fails: the transcript source is read and has
\* content, the five agents return, the output directory takes the files and
\* the storage service takes the profile
AllSucceed ==
    /\ world.readable
    /\ transcript # <<>>
    /\ ~analyze_transcript(vader, transcript).raised
    /\ world.writable
    /\ world.storage

\* C26: a run of main whose transcript loading, agents, markdown generation
\* and storage all succeed scores the chunks after the profile is generated,
\* writes chunk_scores.json, stores the profile, exits with code 0 and, in job
\* mode, leaves the job status at completed.
C26_SuccessfulRunCompletes ==
    \A p \in DOMAIN proc :
        (/\ proc[p].at = "exited"
         /\ ~parse_args(proc[p].argv).raised
         /\ AllSucceed) =>
            /\ proc[p].code = 0
            /\ proc[p].trace =
                  <<"load", "analyze", "markdown", "score", "save", "store">>
            /\ JobMode(p) => metadata = "completed"

\* C27: once the profiler subprocess of a job started by the webhook has
\* exited, the status in job_metadata.json is completed or failed.
C27_ExitedJobIsTerminal ==
    proc["subprocess"].at = "exited" => metadata \in {"completed", "failed"}

\* no run of main gets as far as the storage call
StoreStepUnreached == \A p \in DOMAIN proc : proc[p].at \notin {"save", "store"}

\* C29: notify_app3.py is run at most once for the job, only after the
\* profiler subprocess has exited and only when the status the monitor read
\* is completed; a monitor that read failed, running or processing notifies
\* nobody.
C29_NotifiedOnceOnlyIfCompleted ==
    /\ notified <= 1
    /\ notified = 1 =>
          /\ proc["subprocess"].at = "exited"
          /\ monitor.state = "done"
          /\ monitor.read = "completed"
    /\ (monitor.state = "done" /\ monitor.read # "completed") => notified = 0

C29_Witness ==
    /\ proc["subprocess"].at = "exited"
    /\ monitor.state = "done"
    /\ monitor.read = "failed"
    /\ notified = 0

\* C30: a GET /jobs/<job_id> with a valid key for the job id the webhook
\* returned answers success with the metadata, whose status is one of
\* running, processing, completed, failed.
C30_GetAnswersMetadata ==
    (answer.asked = "job" /\ answer.code # 401) =>
        /\ answer.code = 200
        /\ answer.status \in Statuses

====
